---- MODULE Spec2Model ----
(***************************************************************************)
(* Verification model of tscrapingbot-rs.                                  *)
(*                                                                         *)
(* Part 1: Executor (src/src/handlers/mod.rs), the admission controller:  *)
(* a tokio Semaphore bounding global concurrency plus a map of per-user    *)
(* tokio Mutexes (user_locks) that serialises the commands of one user.    *)
(*                                                                         *)
(* The runtime is tokio's multi-thread flavour (src/src/main.rs:123), so   *)
(* every access to shared state (semaphore, registry mutex, key mutex,     *)
(* Arc reference count) is one atomic step and the steps of different     *)
(* run() calls interleave freely.                                          *)
(*                                                                         *)
(* Part 2: ChatActionKeepAlive                                             *)
(* (src/src/handlers/utils/chat_action_keep_alive.rs), the background      *)
(* task that sends a chat action on every tick of an interval until it is  *)
(* told to stop.  Its specification is KeepSpec.                           *)
(*                                                                         *)
(* Part 3: the command handlers (src/src/handlers/{start,reset,ask,       *)
(* search,dollar}.rs) as users of one ChatActionKeepAlive: spawn, external *)
(* work, keep.shutdown(), reply.  Its specification is HandlerSpec.        *)
(*                                                                         *)
(* Part 4: escape_telegram_code_entities                                   *)
(* (src/src/handlers/utils/escape_telegram_code_entities.rs), a pure       *)
(* function on texts.  Its specification is SanSpec.                       *)
(*                                                                         *)
(* Part 5: handle_command (src/src/handlers/mod.rs:103-199), which puts a  *)
(* handler inside Executor::run.  Its specification is CommandSpec.        *)
(*                                                                         *)
(* Part 6: what ask and search (src/src/handlers/{ask,search}.rs) send to  *)
(* the chat and write to the messages table.  Its specification is         *)
(* StoreSpec.                                                              *)
(*                                                                         *)
(* Part 7: run_reasoning_step (src/src/handlers/utils/llm/analize.rs).     *)
(* Its specification is ReasonSpec.                                        *)
(***************************************************************************)
EXTENDS Integers, Sequences, FiniteSets, TLC

\* ---------------------------------------------------------------- bounds
\* Number of run() calls submitted in one behaviour.  Calls are numbered in
\* the order in which they are invoked (first poll of the run future).
NumCalls == 3
\* Number of distinct user keys.  Keys are numbered in the order of their
\* first use.
NumKeys == 3
\* Capacity of the executor under analysis (Executor::new(max_concurrent)).
Capacity == 2

\* Most send_chat_action invocations followed in one behaviour.
MaxInvocations == 3
\* Most calls of shutdown() followed in one behaviour.
MaxShutdownCalls == 2
\* Most pieces an input of escape_telegram_code_entities is made of.
MaxPieces == 4
\* Most /ask and /search requests followed in one behaviour.
MaxRequests == 2
\* Most characters of a text the reasoning model answers with.
MaxTextLen == 3

Calls == 1..NumCalls
Keys == 1..NumKeys
\* One Arc<TokioMutex<()>> allocation can be made per call at most.
LockIds == 1..NumCalls

\* Option::None for a call, a key, a key-lock allocation.
NoCall == 0
NoKey == 0
NoLock == 0

\* What the caller-supplied closure f produces: a value of R that denotes
\* success or failure.
TaskValues == {"ok", "err"}
NoValue == "none"

VARIABLES
    pc,            \* position of each run() call
    user_key,      \* argument user_key of each call
    permits,       \* free permits of self.semaphore
    sem_waiters,   \* FIFO wait queue of self.semaphore
    permit,        \* local `permit`: TRUE while the call owns a SemaphorePermit
    map_holder,    \* owner of the registry mutex self.user_locks
    user_locks,    \* the HashMap: key -> key-lock allocation
    lock_arc,      \* local `lock_arc` of each call
    lock_holder,   \* owner of each key mutex (the live `_user_guard`)
    lock_waiters,  \* FIFO wait queue of each key mutex
    result,        \* local `result`
    produced,      \* value that f().await yielded
    ret,           \* value run() returned to its caller
    ran,           \* how many times f() has been invoked for the call
    outcome,       \* how the call left run()
    arrived        \* per key mutex: the calls whose f() has not completed, in
                   \* the order in which they called lock_arc.lock()

\* State of one ChatActionKeepAlive and of its background task.
VARIABLES
    caller,         \* the owner of the ChatActionKeepAlive value:
                    \*   "holding" - between spawn and drop, not inside shutdown()
                    \*   "joining" - inside shutdown(), suspended at h.await
                    \*   "dropped" - the value has been dropped
    stop_tx,        \* field stop_tx: TRUE for Some(sender)
    handle,         \* field handle: TRUE for Some(join handle)
    stop_rx,        \* the oneshot channel: "empty" or "sent"
    abort_flag,     \* JoinHandle::abort has been called on the task
    loop_pc,        \* the background task:
                    \*   "select"  - suspended at (or not yet polled before) select!
                    \*   "sending" - suspended at bot.send_chat_action(..).await
                    \*   "exited"  - left the loop by break and finished
                    \*   "aborted" - cancelled by abort
    tick_due,       \* ticker.tick() is ready
    invocations,    \* send_chat_action calls started so far
    failures,       \* send_chat_action calls that returned Err
    shutdown_calls, \* calls of shutdown() made so far
    shutdown_done,  \* a call of shutdown() has returned
    seen_at_stop    \* value of `invocations` when the stop signal was sent

keep_vars == <<caller, stop_tx, handle, stop_rx, abort_flag, loop_pc, tick_due,
               invocations, failures, shutdown_calls, shutdown_done, seen_at_stop>>

\* State of one command handler that has spawned the ChatActionKeepAlive.
VARIABLES
    handler,        \* which handler runs: "none" until its work is over
    h_outcome,      \* how the handler's external work ended
    h_pc,           \* position of the handler:
                    \*   "working"   - after spawn, awaiting its external work
                    \*   "stopping"  - about to call keep.shutdown()
                    \*   "joining"   - inside keep.shutdown().await
                    \*   "replying"  - about to send the reply
                    \*   "sent"      - the reply request is awaited
                    \*   "returned"  - the handler has returned, keep is dropped
    replies         \* replies sent to the chat so far

h_vars == <<handler, h_outcome, h_pc, replies>>

\* One application of escape_telegram_code_entities.
VARIABLES
    san_input,      \* the argument `input`, built piece by piece
    san_pieces,     \* number of pieces `san_input` is made of
    san_output,     \* the value returned for san_input
    san_twice,      \* the value returned for san_output
    san_phase       \* "input", "done" (san_output set), "again" (san_twice set)

san_vars == <<san_input, san_pieces, san_output, san_twice, san_phase>>

\* One call of handle_command.
VARIABLES
    sender,         \* msg.from: "unknown" until the update is looked at,
                    \*   then "some" or "none"
    hc_pc,          \* position of handle_command:
                    \*   "received" - called, msg.from not yet matched
                    \*   "refusing" - sending "The user could not be identified."
                    \*   "running"  - inside EXECUTOR.run(..).await
                    \*   "returned" - handle_command has returned
    hc_ret,         \* what handle_command returned: "none", "Ok" or "Err"
    h_result,       \* what the handler returned to the closure of line 141
    logged          \* tracing::error!("... command failed") was called

cmd_vars == <<sender, hc_pc, hc_ret, h_result, logged>>

\* One /ask or /search request after another, and the messages table.
VARIABLES
    rq_handler,     \* "none", "ask" or "search"
    rq_pc,          \* position of the handler, "idle" before the first request
    tx,             \* the transaction of ask: "none", "open", "committed",
                    \*   "rolled_back", "failed" (commit returned an error)
    tx_writes,      \* what the open transaction has written:
                    \*   "records" - language, user and chat records
                    \*   "message" - the (prompt, response) row
    db_records,     \* committed: the language, user and chat records exist
    rows,           \* committed rows of the table messages
    rows_before,    \* value of rows when the request began
    first_send,     \* result of the first send of the answer: "none", "ok",
                    \*   "parse" (an error whose text holds "parse"), "err"
    delivered,      \* answers delivered to the chat by this request
    failure,        \* the step of this request that failed, or "none"
    requests        \* requests begun so far

rq_vars == <<rq_handler, rq_pc, tx, tx_writes, db_records, rows, rows_before,
             first_send, delivered, failure, requests>>

\* One call of run_reasoning_step.
VARIABLES
    rs_pc,          \* "idle", "loop" (at the head of the for loop),
                    \*   "awaiting" (request sent), "returned"
    rs_base,        \* argument base_prompt
    rs_attempt,     \* loop variable attempt
    rs_requests,    \* model requests sent so far
    rs_responses,   \* the responses received, in order
    rs_result       \* the value returned: <<"None">> or <<"Some", text>>

rs_vars == <<rs_pc, rs_base, rs_attempt, rs_requests, rs_responses, rs_result>>

vars == <<pc, user_key, permits, sem_waiters, permit, map_holder, user_locks,
          lock_arc, lock_holder, lock_waiters, result, produced, ret, ran,
          outcome, arrived>>

\* ---------------------------------------------------------------- helpers
\* A wait queue without the call t (Acquire::drop unlinks a waiter).
Without(s, t) == SelectSeq(s, LAMBDA x : x # t)

\* Arc::strong_count: one reference held by the map entry (if the map still
\* points to the allocation) plus one per live `lock_arc` local.
strong_count(l) ==
    Cardinality({k \in Keys : user_locks[k] = l})
        + Cardinality({t \in Calls : lock_arc[t] = l})

\* Arc::new: a fresh allocation, i.e. one that nothing references.
FreshLock == CHOOSE l \in LockIds : strong_count(l) = 0

\* Semaphore::acquire fast path: a permit is free.
PermitAvailable_NoLimit(n) == n >= 0

PermitAvailable(n) == n > 0

\* Mutex::lock fast path: the key mutex has no owner.
KeyLockFree_Always(owner) == TRUE

KeyLockFree(owner) == owner = NoCall

\* Tokio's Semaphore and Mutex are fair: a release wakes the waiter that
\* has queued first.
NextWaiter_Lifo(q) == q[Len(q)]

NextWaiter(q) == Head(q)

\* A released permit or mutex goes straight to a queued waiter, if any.
HandOff_Lost(giving, q) == NoCall

HandOff(giving, q) == IF giving /\ q # <<>> THEN NextWaiter(q) ELSE NoCall

\* Free permits after a release: the count grows only when no waiter took
\* the permit.
PermitsAfterRelease_Always(n, giving, woken) == IF giving THEN n + 1 ELSE n

PermitsAfterRelease(n, giving, woken) ==
    IF giving /\ woken = NoCall THEN n + 1 ELSE n

\* Calls that are between the start of f() and its completion.
InsideTask == {t \in Calls : pc[t] = "task"}

\* Calls that entered run() and have not left it.
InFlight == {t \in Calls : pc[t] \notin {"idle", "done"}}

\* ---------------------------------------------------------------- initial state
\* ChatActionKeepAlive::spawn has returned (chat_action_keep_alive.rs:21-52):
\* the channel is empty, the task is spawned and not yet polled, both fields
\* are Some; the first tick of tokio's interval is ready immediately.
KeepInit ==
    /\ caller = "holding"
    /\ stop_tx = TRUE
    /\ handle = TRUE
    /\ stop_rx = "empty"
    /\ abort_flag = FALSE
    /\ loop_pc = "select"
    /\ tick_due = TRUE
    /\ invocations = 0
    /\ failures = 0
    /\ shutdown_calls = 0
    /\ shutdown_done = FALSE
    /\ seen_at_stop = 0

\* The handler has spawned its ChatActionKeepAlive (e.g. start.rs:15-16) and
\* awaits its external work.
HandlerInit ==
    /\ handler = "none"
    /\ h_outcome = "none"
    /\ h_pc = "working"
    /\ replies = 0

\* No input has been chosen for escape_telegram_code_entities.
SanInit ==
    /\ san_input = <<>>
    /\ san_pieces = 0
    /\ san_output = <<>>
    /\ san_twice = <<>>
    /\ san_phase = "input"

\* handle_command has been called with an update.
CommandInit ==
    /\ sender = "unknown"
    /\ hc_pc = "received"
    /\ hc_ret = "none"
    /\ h_result = "none"
    /\ logged = FALSE

\* No /ask or /search request has begun; the table messages is empty.
StoreInit ==
    /\ rq_handler = "none"
    /\ rq_pc = "idle"
    /\ tx = "none"
    /\ tx_writes = {}
    /\ db_records = FALSE
    /\ rows = 0
    /\ rows_before = 0
    /\ first_send = "none"
    /\ delivered = 0
    /\ failure = "none"
    /\ requests = 0

\* run_reasoning_step has not been called.
ReasonInit ==
    /\ rs_pc = "idle"
    /\ rs_base = <<>>
    /\ rs_attempt = 0
    /\ rs_requests = 0
    /\ rs_responses = <<>>
    /\ rs_result = <<>>

\* A step of one component leaves the other components alone.
ExecutorOnly == UNCHANGED <<keep_vars, h_vars, san_vars, cmd_vars, rq_vars, rs_vars>>

KeepAliveOnly == UNCHANGED <<vars, h_vars, san_vars, cmd_vars, rq_vars, rs_vars>>

HandlerOnly == UNCHANGED <<vars, san_vars, cmd_vars, rq_vars, rs_vars>>

SanitizerOnly == UNCHANGED <<vars, keep_vars, h_vars, cmd_vars, rq_vars, rs_vars>>

CommandOnly == UNCHANGED <<vars, keep_vars, h_vars, san_vars, rq_vars, rs_vars>>

StoreOnly == UNCHANGED <<vars, keep_vars, h_vars, san_vars, cmd_vars, rs_vars>>

ReasonOnly == UNCHANGED <<vars, keep_vars, h_vars, san_vars, cmd_vars, rq_vars>>

\* Executor::new(Capacity): all permits free, empty map; no call submitted.
Init ==
    /\ KeepInit
    /\ HandlerInit
    /\ SanInit
    /\ CommandInit
    /\ StoreInit
    /\ ReasonInit
    /\ pc = [t \in Calls |-> "idle"]
    /\ user_key = [t \in Calls |-> NoKey]
    /\ permits = Capacity
    /\ sem_waiters = <<>>
    /\ permit = [t \in Calls |-> FALSE]
    /\ map_holder = NoCall
    /\ user_locks = [k \in Keys |-> NoLock]
    /\ lock_arc = [t \in Calls |-> NoLock]
    /\ lock_holder = [l \in LockIds |-> NoCall]
    /\ lock_waiters = [l \in LockIds |-> <<>>]
    /\ result = [t \in Calls |-> NoValue]
    /\ produced = [t \in Calls |-> NoValue]
    /\ ret = [t \in Calls |-> NoValue]
    /\ ran = [t \in Calls |-> 0]
    /\ outcome = [t \in Calls |-> "none"]
    /\ arrived = [l \in LockIds |-> <<>>]

\* ---------------------------------------------------------------- releases
\* Dropping some of the resources a call owns, as one step:
\*   dropPermit - drop(permit) / SemaphorePermit::drop
\*   dropGuard  - MutexGuard::drop of `_user_guard`
\*   dropArc    - Arc::drop of `lock_arc`
\* A released permit or key mutex is handed to the first waiter of its FIFO
\* queue, which resumes after its await; a call that is itself queued is
\* taken out of the queue (Acquire::drop).
Release(t, dropPermit, dropGuard, dropArc, newpc) ==
    LET l == lock_arc[t]
        semq == Without(sem_waiters, t)
        givePermit == dropPermit /\ permit[t]
        wokenS == HandOff(givePermit, semq)
        giveKey == dropGuard /\ l # NoLock /\ lock_holder[l] = t
        keyq == IF l # NoLock THEN Without(lock_waiters[l], t) ELSE <<>>
        wokenK == HandOff(giveKey, keyq)
    IN  /\ sem_waiters' = Without(semq, wokenS)
        /\ permits' = PermitsAfterRelease(permits, givePermit, wokenS)
        /\ permit' = [c \in Calls |->
                         IF c = wokenS THEN TRUE
                         ELSE IF c = t /\ dropPermit THEN FALSE
                         ELSE permit[c]]
        /\ lock_holder' = IF giveKey
                             THEN [lock_holder EXCEPT ![l] = wokenK]
                             ELSE lock_holder
        /\ lock_waiters' = IF l # NoLock
                              THEN [lock_waiters EXCEPT ![l] = Without(keyq, wokenK)]
                              ELSE lock_waiters
        /\ lock_arc' = IF dropArc THEN [lock_arc EXCEPT ![t] = NoLock] ELSE lock_arc
        /\ pc' = [c \in Calls |->
                     IF c = t THEN newpc
                     ELSE IF c = wokenS THEN "map_wait"
                     ELSE IF c = wokenK THEN "locked"
                     ELSE pc[c]]

\* f() of call t is over (completed, panicked or dropped), or will never run.
TaskOver(t) ==
    arrived' = [l \in LockIds |-> Without(arrived[l], t)]

\* Leaving run(): how the call ended.
Leave(t, how) ==
    outcome' = [outcome EXCEPT ![t] = how]

\* ---------------------------------------------------------------- run()
\* mod.rs:57  self.semaphore.acquire().await, first poll.
Invoke(t, k) ==
    /\ pc[t] = "idle"
    /\ \A u \in Calls : u < t => pc[u] # "idle"
    /\ \A j \in Keys : j < k => \E u \in Calls : user_key[u] = j
    /\ user_key' = [user_key EXCEPT ![t] = k]
    /\ IF PermitAvailable(permits)
          THEN /\ permits' = permits - 1
               /\ permit' = [permit EXCEPT ![t] = TRUE]
               /\ pc' = [pc EXCEPT ![t] = "map_wait"]
               /\ UNCHANGED sem_waiters
          ELSE /\ sem_waiters' = Append(sem_waiters, t)
               /\ pc' = [pc EXCEPT ![t] = "permit_wait"]
               /\ UNCHANGED <<permits, permit>>
    /\ UNCHANGED <<map_holder, user_locks, lock_arc, lock_holder, lock_waiters,
                   result, produced, ret, ran, outcome, arrived>>
    /\ ExecutorOnly

\* mod.rs:61 and mod.rs:78  self.user_locks.lock().await
LockMap(t) ==
    /\ pc[t] \in {"map_wait", "cleanup_wait"}
    /\ map_holder = NoCall
    /\ map_holder' = t
    /\ pc' = [pc EXCEPT ![t] = IF pc[t] = "map_wait" THEN "in_map" ELSE "in_cleanup"]
    /\ UNCHANGED <<user_key, permits, sem_waiters, permit, user_locks, lock_arc,
                   lock_holder, lock_waiters, result, produced, ret, ran, outcome, arrived>>
    /\ ExecutorOnly

\* mod.rs:62-64  map.entry(user_key).or_insert_with(Arc::new).clone()
GetOrInsert_Shared(m, k) ==
    IF m[k] # NoLock THEN m
    ELSE IF \E j \in Keys : m[j] # NoLock
         THEN [m EXCEPT ![k] = m[CHOOSE j \in Keys : m[j] # NoLock]]
         ELSE [m EXCEPT ![k] = FreshLock]

GetOrInsert(m, k) ==
    IF m[k] = NoLock THEN [m EXCEPT ![k] = FreshLock] ELSE m

\* mod.rs:79-83  remove the entry if it is still this call's allocation.
RemoveIfSame(m, k, l) ==
    IF m[k] # NoLock /\ m[k] = l THEN [m EXCEPT ![k] = NoLock] ELSE m

\* The two critical sections under the registry mutex; the MutexGuard `map`
\* is dropped at the end of either block.  The second one is entered only
\* by a call whose check at mod.rs:77 succeeded.
\*   mod.rs:60-65  get-or-insert of the key mutex and clone of the Arc
\*   mod.rs:78-83  conditional removal of the entry
MapSection(t) ==
    /\ pc[t] \in {"in_map", "in_cleanup"}
    /\ map_holder = t
    /\ map_holder' = NoCall
    /\ IF pc[t] = "in_map"
          THEN /\ user_locks' = GetOrInsert(user_locks, user_key[t])
               /\ lock_arc' = [lock_arc EXCEPT ![t] = user_locks'[user_key[t]]]
               /\ pc' = [pc EXCEPT ![t] = "key_try"]
          ELSE /\ user_locks' = RemoveIfSame(user_locks, user_key[t], lock_arc[t])
               /\ pc' = [pc EXCEPT ![t] = "unlock"]
               /\ UNCHANGED lock_arc
    /\ UNCHANGED <<user_key, permits, sem_waiters, permit, lock_holder,
                   lock_waiters, result, produced, ret, ran, outcome, arrived>>
    /\ ExecutorOnly

\* mod.rs:68-71  lock_arc.lock().await, first poll: take the mutex and call
\* f(), or queue behind the owner.
LockKey(t) ==
    /\ pc[t] = "key_try"
    /\ arrived' = [arrived EXCEPT ![lock_arc[t]] = Append(@, t)]
    /\ IF KeyLockFree(lock_holder[lock_arc[t]])
          THEN /\ lock_holder' = [lock_holder EXCEPT ![lock_arc[t]] = t]
               /\ ran' = [ran EXCEPT ![t] = @ + 1]
               /\ pc' = [pc EXCEPT ![t] = "task"]
               /\ UNCHANGED lock_waiters
          ELSE /\ lock_waiters' = [lock_waiters EXCEPT
                                      ![lock_arc[t]] = Append(@, t)]
               /\ pc' = [pc EXCEPT ![t] = "key_wait"]
               /\ UNCHANGED <<lock_holder, ran>>
    /\ UNCHANGED <<user_key, permits, sem_waiters, permit, map_holder, user_locks,
                   lock_arc, result, produced, ret, outcome>>
    /\ ExecutorOnly

\* mod.rs:68-71  a queued call that was handed the key mutex resumes and
\* calls f().
StartTask(t) ==
    /\ pc[t] = "locked"
    /\ ran' = [ran EXCEPT ![t] = @ + 1]
    /\ pc' = [pc EXCEPT ![t] = "task"]
    /\ UNCHANGED <<user_key, permits, sem_waiters, permit, map_holder, user_locks,
                   lock_arc, lock_holder, lock_waiters, result, produced, ret, outcome, arrived>>
    /\ ExecutorOnly

\* mod.rs:71  the value of f().await that is bound to `result`.
TaskValue(v) == v

\* mod.rs:71-74  f().await completes with the value v: let result = v;
\* then drop(permit).  (Binding `result` touches no shared state, so it is
\* one step with the release of the permit.)
TaskDone(t, v) ==
    /\ pc[t] = "task"
    /\ produced' = [produced EXCEPT ![t] = v]
    /\ result' = [result EXCEPT ![t] = TaskValue(v)]
    /\ Release(t, TRUE, FALSE, FALSE, "check")
    /\ TaskOver(t)
    /\ UNCHANGED <<user_key, map_holder, user_locks, ret, ran, outcome>>
    /\ ExecutorOnly

\* mod.rs:71  f().await panics: the stack unwinds through run(), dropping
\* `_user_guard`, `lock_arc` and `permit`; lines 74-86 are not executed.
TaskPanic(t) ==
    /\ pc[t] = "task"
    /\ Release(t, TRUE, TRUE, TRUE, "done")
    /\ TaskOver(t)
    /\ Leave(t, "panicked")
    /\ UNCHANGED <<user_key, map_holder, user_locks, result, produced, ret, ran>>
    /\ ExecutorOnly

\* mod.rs:77  if Arc::strong_count(&lock_arc) == 1
OnlyReference_BesidesMap(n) == n = 2

OnlyReference(n) == n = 1

Check(t) ==
    /\ pc[t] = "check"
    /\ pc' = [pc EXCEPT ![t] = IF OnlyReference(strong_count(lock_arc[t]))
                                  THEN "cleanup_wait" ELSE "unlock"]
    /\ UNCHANGED <<user_key, permits, sem_waiters, permit, map_holder, user_locks,
                   lock_arc, lock_holder, lock_waiters, result, produced, ret, ran, outcome,
                   arrived>>
    /\ ExecutorOnly

\* mod.rs:87  end of scope: `_user_guard` is dropped first ...
Unlock(t) ==
    /\ pc[t] = "unlock"
    /\ Release(t, FALSE, TRUE, FALSE, "drop_arc")
    /\ UNCHANGED <<user_key, map_holder, user_locks, result, produced, ret, ran, outcome,
                   arrived>>
    /\ ExecutorOnly

\* mod.rs:86  the value handed back to the caller.
Returned_Suppressed(r) == "ok"

Returned(r) == r

\* mod.rs:86-87  ... then `lock_arc`, and `result` is returned.
Return(t) ==
    /\ pc[t] = "drop_arc"
    /\ Release(t, FALSE, FALSE, TRUE, "done")
    /\ ret' = [ret EXCEPT ![t] = Returned(result[t])]
    /\ Leave(t, "returned")
    /\ UNCHANGED <<user_key, map_holder, user_locks, result, produced, ran,
                   arrived>>
    /\ ExecutorOnly

\* Await points of run(): the places where the future can be dropped.
AwaitPoints == {"permit_wait", "map_wait", "key_wait", "locked", "task", "cleanup_wait"}

\* The run future is dropped while suspended: every live local is dropped
\* (`_user_guard`, `lock_arc`, `permit`, or the pending Acquire).
Cancel(t) ==
    /\ pc[t] \in AwaitPoints
    /\ Release(t, TRUE, TRUE, TRUE, "done")
    /\ TaskOver(t)
    /\ Leave(t, "cancelled")
    /\ UNCHANGED <<user_key, map_holder, user_locks, result, produced, ret, ran>>
    /\ ExecutorOnly

Next ==
    \E t \in Calls :
        \/ \E k \in Keys : Invoke(t, k)
        \/ LockMap(t)
        \/ MapSection(t)
        \/ LockKey(t)
        \/ StartTask(t)
        \/ \E v \in TaskValues : TaskDone(t, v)
        \/ TaskPanic(t)
        \/ Check(t)
        \/ Unlock(t)
        \/ Return(t)
        \/ Cancel(t)

Spec == Init /\ [][Next]_vars

\* ---------------------------------------------------------------- fair runs
\* The steps of call t after its invocation, in runs in which every task
\* that starts completes with a value and no run future is dropped.
Step(t) ==
    \/ LockMap(t)
    \/ MapSection(t)
    \/ LockKey(t)
    \/ StartTask(t)
    \/ \E v \in TaskValues : TaskDone(t, v)
    \/ Check(t)
    \/ Unlock(t)
    \/ Return(t)

LiveNext ==
    \E t \in Calls :
        \/ \E k \in Keys : Invoke(t, k)
        \/ Step(t)

\* The tokio scheduler polls every woken future again, and a task that has
\* started completes: a call whose next step stays possible takes it.
Fairness == \A t \in Calls : WF_vars(Step(t))

LiveSpec == Init /\ [][LiveNext]_vars /\ Fairness

\* ================================================================ keep-alive
\* Results of one bot.send_chat_action(..).await.
SendResults == {"ok", "err"}

\* The background task can still run: it has neither finished nor been
\* cancelled.
LoopAlive == loop_pc \in {"select", "sending"}

\* Readiness of the branch `_ = &mut stop_rx` of select!: the receiver
\* completes once a value has been sent.
StopReady_Always(rx) == TRUE

StopReady(rx) == rx = "sent"

\* Where the loop goes after send_chat_action returned res: an Err is logged
\* (tracing::warn!) and the loop goes on to the next select! like after Ok.
AfterSend_BreakOnError(res) == IF res = "err" THEN "exited" ELSE "select"

AfterSend(res) == "select"

\* What Option::take leaves in the field: None.
Take_Kept(o) == o

Take(o) == FALSE

\* `let _ = h.await` completes when the task has finished or was cancelled.
JoinReady_Always(p) == TRUE

JoinReady(p) == p \in {"exited", "aborted"}

\* Drop calls h.abort() iff the field handle is still Some.
AbortOnDrop_Never(h) == FALSE

AbortOnDrop(h) == h

\* ---------------------------------------------------------------- the task
\* The period has elapsed: the next ticker.tick() is ready.  A tick that
\* falls due while send_chat_action is awaited stays due (tokio's interval
\* bursts missed ticks).
TimePasses ==
    /\ LoopAlive
    /\ ~tick_due
    /\ tick_due' = TRUE
    /\ UNCHANGED <<caller, stop_tx, handle, stop_rx, abort_flag, loop_pc,
                   invocations, failures, shutdown_calls, shutdown_done,
                   seen_at_stop>>
    /\ KeepAliveOnly

\* select! completes with the branch ticker.tick() and the task calls
\* bot.send_chat_action.  select! polls its branches in a random order, so
\* this branch can win whenever the tick is ready, a ready stop_rx
\* notwithstanding.
Tick ==
    /\ loop_pc = "select"
    /\ tick_due
    /\ invocations < MaxInvocations
    /\ loop_pc' = "sending"
    /\ tick_due' = FALSE
    /\ invocations' = invocations + 1
    /\ UNCHANGED <<caller, stop_tx, handle, stop_rx, abort_flag, failures,
                   shutdown_calls, shutdown_done, seen_at_stop>>
    /\ KeepAliveOnly

\* send_chat_action returns res; an error is only logged.
SendDone(res) ==
    /\ loop_pc = "sending"
    /\ failures' = IF res = "err" THEN failures + 1 ELSE failures
    /\ loop_pc' = AfterSend(res)
    /\ UNCHANGED <<caller, stop_tx, handle, stop_rx, abort_flag, tick_due,
                   invocations, shutdown_calls, shutdown_done, seen_at_stop>>
    /\ KeepAliveOnly

\* select! completes with the branch stop_rx: break, and the task finishes.
StopSeen ==
    /\ loop_pc = "select"
    /\ StopReady(stop_rx)
    /\ loop_pc' = "exited"
    /\ UNCHANGED <<caller, stop_tx, handle, stop_rx, abort_flag, tick_due,
                   invocations, failures, shutdown_calls, shutdown_done,
                   seen_at_stop>>
    /\ KeepAliveOnly

\* The runtime cancels the aborted task at an await point.
Aborted ==
    /\ abort_flag
    /\ LoopAlive
    /\ loop_pc' = "aborted"
    /\ UNCHANGED <<caller, stop_tx, handle, stop_rx, abort_flag, tick_due,
                   invocations, failures, shutdown_calls, shutdown_done,
                   seen_at_stop>>
    /\ KeepAliveOnly

\* ---------------------------------------------------------------- the owner
\* shutdown() up to its await: take stop_tx and send if it was Some, take
\* handle and await it if it was Some, return at once otherwise.
ShutdownCallStep ==
    /\ caller = "holding"
    /\ shutdown_calls < MaxShutdownCalls
    /\ shutdown_calls' = shutdown_calls + 1
    /\ stop_tx' = Take(stop_tx)
    /\ stop_rx' = IF stop_tx THEN "sent" ELSE stop_rx
    /\ seen_at_stop' = IF stop_tx THEN invocations ELSE seen_at_stop
    /\ handle' = Take(handle)
    /\ caller' = IF handle THEN "joining" ELSE "holding"
    /\ shutdown_done' = IF handle THEN shutdown_done ELSE TRUE
    /\ UNCHANGED <<abort_flag, loop_pc, tick_due, invocations, failures>>

ShutdownCall == ShutdownCallStep /\ KeepAliveOnly

\* h.await completes and shutdown() returns.
ShutdownReturnStep ==
    /\ caller = "joining"
    /\ JoinReady(loop_pc)
    /\ caller' = "holding"
    /\ shutdown_done' = TRUE
    /\ UNCHANGED <<stop_tx, handle, stop_rx, abort_flag, loop_pc, tick_due,
                   invocations, failures, shutdown_calls, seen_at_stop>>

ShutdownReturn == ShutdownReturnStep /\ KeepAliveOnly

\* The future that awaits shutdown() is dropped together with the value it
\* owns: the join handle is dropped (the task is detached), and Drop finds
\* both fields None.
ShutdownDropped ==
    /\ caller = "joining"
    /\ caller' = "dropped"
    /\ UNCHANGED <<stop_tx, handle, stop_rx, abort_flag, loop_pc, tick_due,
                   invocations, failures, shutdown_calls, shutdown_done,
                   seen_at_stop>>
    /\ KeepAliveOnly

\* Drop::drop: send the stop signal if stop_tx is Some, abort the task if
\* handle is Some; nothing is awaited.
DropStep ==
    /\ caller = "holding"
    /\ caller' = "dropped"
    /\ stop_tx' = Take(stop_tx)
    /\ stop_rx' = IF stop_tx THEN "sent" ELSE stop_rx
    /\ seen_at_stop' = IF stop_tx THEN invocations ELSE seen_at_stop
    /\ abort_flag' = AbortOnDrop(handle)
    /\ UNCHANGED <<handle, loop_pc, tick_due, invocations, failures,
                   shutdown_calls, shutdown_done>>

Drop == DropStep /\ KeepAliveOnly

KeepNext ==
    \/ TimePasses
    \/ Tick
    \/ \E res \in SendResults : SendDone(res)
    \/ StopSeen
    \/ Aborted
    \/ ShutdownCall
    \/ ShutdownReturn
    \/ ShutdownDropped
    \/ Drop

KeepSpec == Init /\ [][KeepNext]_keep_vars

\* JoinHandle::abort wakes the task and the runtime cancels it the next time
\* it schedules it: an aborted task that is still alive is cancelled.
KeepFairness == WF_keep_vars(Aborted)

KeepLiveSpec == Init /\ [][KeepNext]_keep_vars /\ KeepFairness

\* The state of the signaler: Stopped once the task is over, Stopping from
\* the stop request or the abort until then, Running before.
SignalerState ==
    IF ~LoopAlive THEN "Stopped"
    ELSE IF stop_rx = "sent" \/ abort_flag THEN "Stopping"
    ELSE "Running"

\* ================================================================ handlers
\* The handlers that spawn a ChatActionKeepAlive.
Handlers == {"start", "reset", "ask", "search", "dollar"}

\* How the external work of a handler can end, as far as its reply path is
\* concerned.  reset: rows were cleared, no row was affected, or the update
\* failed.
Outcomes(h) ==
    IF h = "reset" THEN {"cleared", "unchanged", "error"}
    ELSE IF h = "start" THEN {"answer"}
    ELSE {"answer", "error"}

\* Whether the reply path calls keep.shutdown() before it sends the reply.
\* Every path does (start.rs:24, ask.rs:43/61/127/226/241,
\* search.rs:39..193, dollar.rs:26/45/91/96, reset.rs:49/73) except the
\* path of reset on which no row was affected (reset.rs:58-66).
ShutsDownFirst_Always(h, out) == TRUE

ShutsDownFirst(h, out) == ~(h = "reset" /\ out = "unchanged")

\* The external work of a handler waits for the signaler: never, the loop
\* runs on its own task (tokio::spawn, chat_action_keep_alive.rs:26).
WaitsForSignaler_WhileSending(p) == p = "sending"

WaitsForSignaler(p) == FALSE

\* The external work of handler h ends with outcome out.
WorkDone(h, out) ==
    /\ h_pc = "working"
    /\ ~WaitsForSignaler(loop_pc)
    /\ handler' = h
    /\ h_outcome' = out
    /\ h_pc' = IF ShutsDownFirst(h, out) THEN "stopping" ELSE "replying"
    /\ UNCHANGED <<replies, keep_vars>>
    /\ HandlerOnly

\* keep.shutdown() is called.
HandlerShutdown ==
    /\ h_pc = "stopping"
    /\ ShutdownCallStep
    /\ h_pc' = "joining"
    /\ UNCHANGED <<handler, h_outcome, replies>>
    /\ HandlerOnly

\* keep.shutdown().await returns.
HandlerJoined ==
    /\ h_pc = "joining"
    /\ ShutdownReturnStep
    /\ h_pc' = "replying"
    /\ UNCHANGED <<handler, h_outcome, replies>>
    /\ HandlerOnly

\* The reply is sent to the chat (bot.send_message / send_reply_or_plain).
SendReply ==
    /\ h_pc = "replying"
    /\ replies' = replies + 1
    /\ h_pc' = "sent"
    /\ UNCHANGED <<handler, h_outcome, keep_vars>>
    /\ HandlerOnly

\* The send request completes and the handler returns: keep goes out of
\* scope and is dropped.
HandlerReturn ==
    /\ h_pc = "sent"
    /\ DropStep
    /\ h_pc' = "returned"
    /\ UNCHANGED <<handler, h_outcome, replies>>
    /\ HandlerOnly

HandlerNext ==
    \/ TimePasses
    \/ Tick
    \/ \E res \in SendResults : SendDone(res)
    \/ StopSeen
    \/ Aborted
    \/ \E h \in Handlers : \E out \in Outcomes(h) : WorkDone(h, out)
    \/ HandlerShutdown
    \/ HandlerJoined
    \/ SendReply
    \/ HandlerReturn

HandlerSpec == Init /\ [][HandlerNext]_<<keep_vars, h_vars>>

\* ================================================================ handle_command
\* The run() call that handle_command makes; call 1 is a command that was
\* admitted before it.
ThisCall == 2

\* What msg.from can be.
Senders == {"some", "none"}

\* What a handler returns to the closure: Result<(), RequestError>.
HandlerResults == {"Ok", "Err"}

\* mod.rs:112-119  match msg.from.as_ref()
Receive(s) ==
    /\ hc_pc = "received"
    /\ sender' = s
    /\ hc_pc' = IF s = "none" THEN "refusing" ELSE "running"
    /\ UNCHANGED <<hc_ret, h_result, logged>>
    /\ CommandOnly

\* mod.rs:115-117  bot.send_message(..).await? and return Ok(()): a failed
\* send is returned by the `?`.
Refuse(res) ==
    /\ hc_pc = "refusing"
    /\ hc_ret' = IF res = "ok" THEN "Ok" ELSE "Err"
    /\ hc_pc' = "returned"
    /\ UNCHANGED <<sender, h_result, logged>>
    /\ CommandOnly

\* The command admitted earlier: its run() call, with a task that completes.
EarlierCommand == (\E k \in Keys : Invoke(1, k)) \/ Step(1)

\* mod.rs:134-135  EXECUTOR.run(user_key, ..) up to the call of the closure,
\* and mod.rs:74-87 after it.
RunStep ==
    /\ hc_pc = "running"
    /\ \/ \E k \in Keys : Invoke(ThisCall, k)
       \/ LockMap(ThisCall)
       \/ MapSection(ThisCall)
       \/ LockKey(ThisCall)
       \/ StartTask(ThisCall)
       \/ Check(ThisCall)
       \/ Unlock(ThisCall)
       \/ Return(ThisCall)

\* The closure has been called: the handler has spawned its signaler.
ClosureCalled == ran[ThisCall] = 1

\* mod.rs:142-193  the handler returns res to the closure; an Err is logged
\* by tracing::error! and dropped.
HandlerResult(res) ==
    /\ pc[ThisCall] = "task"
    /\ h_pc = "returned"
    /\ h_result = "none"
    /\ h_result' = res
    /\ logged' = (res = "Err")
    /\ UNCHANGED <<sender, hc_pc, hc_ret>>
    /\ CommandOnly

\* mod.rs:194  the async block ends with the value ().
ClosureDone ==
    /\ h_result # "none"
    /\ TaskDone(ThisCall, "ok")

\* mod.rs:196-198  what handle_command returns after run() has returned: the
\* handler's result r plays no part.
Propagate_HandlerResult(r) == r

Propagate(r) == "Ok"

\* mod.rs:196-198  .await; Ok(())
HandleReturn ==
    /\ hc_pc = "running"
    /\ outcome[ThisCall] = "returned"
    /\ hc_ret' = Propagate(h_result)
    /\ hc_pc' = "returned"
    /\ UNCHANGED <<sender, h_result, logged>>
    /\ CommandOnly

CommandNext ==
    \/ \E s \in Senders : Receive(s)
    \/ \E res \in SendResults : Refuse(res)
    \/ EarlierCommand
    \/ RunStep
    \/ ClosureCalled /\ HandlerNext
    \/ \E res \in HandlerResults : HandlerResult(res)
    \/ ClosureDone
    \/ HandleReturn

CommandSpec == Init /\ [][CommandNext]_<<vars, keep_vars, h_vars, cmd_vars>>

\* ================================================================ ask and search
\* Results of a database call, a model request or a page fetch.
IoResults == {"ok", "err"}

\* Results of sending the answer in HTML mode: delivered, refused with an
\* error whose text holds "parse", or failed otherwise.
SendOutcomes == {"ok", "parse", "err"}

\* The handlers that write the table messages.
Writers == {"ask", "search"}

\* tx.rollback(), or the drop of an open transaction: its writes are gone.
RolledBack ==
    /\ tx' = "rolled_back"
    /\ tx_writes' = {}

\* A step that leaves the database as it is.
NoWrite == UNCHANGED <<tx, tx_writes, db_records, rows>>

\* The request fails at `step`; the handler goes on to `next`.
Fails(step, next) ==
    /\ failure' = step
    /\ rq_pc' = next

\* handle_command calls ask or search.
Start(h) ==
    /\ rq_pc \in {"idle", "returned"}
    /\ requests < MaxRequests
    /\ requests' = requests + 1
    /\ rq_handler' = h
    /\ rq_pc' = IF h = "ask" THEN "user" ELSE "input"
    /\ tx' = "none"
    /\ tx_writes' = {}
    /\ rows_before' = rows
    /\ first_send' = "none"
    /\ delivered' = 0
    /\ failure' = "none"
    /\ UNCHANGED <<db_records, rows>>
    /\ StoreOnly

\* ---- ask
\* ask.rs:40-48  msg.from is matched.
AskUser(known) ==
    /\ rq_handler = "ask" /\ rq_pc = "user"
    /\ IF known THEN rq_pc' = "begin" /\ UNCHANGED failure
       ELSE Fails("user", "error_reply")
    /\ NoWrite
    /\ UNCHANGED <<rq_handler, rows_before, first_send, delivered, requests>>
    /\ StoreOnly

\* ask.rs:57-66  pool.begin()
AskBegin(res) ==
    /\ rq_handler = "ask" /\ rq_pc = "begin"
    /\ IF res = "ok"
          THEN /\ tx' = "open"
               /\ rq_pc' = "history"
               /\ UNCHANGED failure
          ELSE /\ Fails("begin", "error_reply")
               /\ UNCHANGED tx
    /\ UNCHANGED <<rq_handler, tx_writes, db_records, rows, rows_before,
                   first_send, delivered, requests>>
    /\ StoreOnly

\* ask.rs:69-131  the history query, which also inserts the language, user
\* and chat records inside the transaction; on error, tx.rollback().
AskHistory(res) ==
    /\ rq_handler = "ask" /\ rq_pc = "history"
    /\ IF res = "ok"
          THEN /\ tx_writes' = tx_writes \cup {"records"}
               /\ rq_pc' = "reasoning"
               /\ UNCHANGED <<tx, failure>>
          ELSE /\ RolledBack
               /\ Fails("history", "error_reply")
    /\ UNCHANGED <<rq_handler, db_records, rows, rows_before, first_send,
                   delivered, requests>>
    /\ StoreOnly

\* ask.rs:134-200  image analysis and the reasoning requests: whatever they
\* yield, the handler goes on to the main model.
AskReasoning ==
    /\ rq_handler = "ask" /\ rq_pc = "reasoning"
    /\ rq_pc' = "model"
    /\ NoWrite
    /\ UNCHANGED <<rq_handler, rows_before, first_send, delivered, failure,
                   requests>>
    /\ StoreOnly

\* ask.rs:208-238  the main model request; on error, tx.rollback() and an
\* error message whose send result is discarded.
AskModel(res) ==
    /\ rq_handler = "ask" /\ rq_pc = "model"
    /\ IF res = "ok"
          THEN /\ rq_pc' = "send"
               /\ UNCHANGED <<tx, tx_writes, failure>>
          ELSE /\ RolledBack
               /\ Fails("model", "error_reply")
    /\ UNCHANGED <<rq_handler, db_records, rows, rows_before, first_send,
                   delivered, requests>>
    /\ StoreOnly

\* ask.rs:256-261  where ask goes after the send of the answer.
AskAfterSend_InsertAnyway(res) == "insert"

AskAfterSend(res) == IF res = "ok" THEN "insert" ELSE "returned"

\* ask.rs:244-261  the answer is sent in HTML mode; on error, tx.rollback()
\* and return Ok(()).
AskSend(res) ==
    /\ rq_handler = "ask" /\ rq_pc = "send"
    /\ first_send' = res
    /\ delivered' = IF res = "ok" THEN delivered + 1 ELSE delivered
    /\ rq_pc' = AskAfterSend(res)
    /\ IF AskAfterSend(res) = "insert"
          THEN UNCHANGED <<tx, tx_writes, failure>>
          ELSE RolledBack /\ failure' = "send"
    /\ UNCHANGED <<rq_handler, db_records, rows, rows_before, requests>>
    /\ StoreOnly

\* ask.rs:264-282  INSERT INTO messages inside the transaction; on error,
\* tx.rollback() and an error message.
AskInsert(res) ==
    /\ rq_handler = "ask" /\ rq_pc = "insert"
    /\ IF res = "ok"
          THEN /\ tx_writes' = tx_writes \cup {"message"}
               /\ rq_pc' = "commit"
               /\ UNCHANGED <<tx, failure>>
          ELSE /\ RolledBack
               /\ Fails("insert", "error_reply")
    /\ UNCHANGED <<rq_handler, db_records, rows, rows_before, first_send,
                   delivered, requests>>
    /\ StoreOnly

\* ask.rs:285-291  tx.commit(): the writes of the transaction become
\* durable, or none of them does.
AskCommit(res) ==
    /\ rq_handler = "ask" /\ rq_pc = "commit"
    /\ tx_writes' = {}
    /\ IF res = "ok"
          THEN /\ tx' = "committed"
               /\ rows' = IF "message" \in tx_writes THEN rows + 1 ELSE rows
               /\ db_records' = (db_records \/ "records" \in tx_writes)
               /\ rq_pc' = "returned"
               /\ UNCHANGED failure
          ELSE /\ tx' = "failed"
               /\ Fails("commit", "error_reply")
               /\ UNCHANGED <<rows, db_records>>
    /\ UNCHANGED <<rq_handler, rows_before, first_send, delivered, requests>>
    /\ StoreOnly

\* ---- search
\* search.rs:38-63  the text is not empty and the user is known.
SearchInput(valid) ==
    /\ rq_handler = "search" /\ rq_pc = "input"
    /\ IF valid THEN rq_pc' = "history" /\ UNCHANGED failure
       ELSE Fails("input", "error_reply")
    /\ NoWrite
    /\ UNCHANGED <<rq_handler, rows_before, first_send, delivered, requests>>
    /\ StoreOnly

\* search.rs:67-85  the history query, on the pool.
SearchHistory(res) ==
    /\ rq_handler = "search" /\ rq_pc = "history"
    /\ IF res = "ok" THEN rq_pc' = "url" /\ UNCHANGED failure
       ELSE Fails("history", "error_reply")
    /\ NoWrite
    /\ UNCHANGED <<rq_handler, rows_before, first_send, delivered, requests>>
    /\ StoreOnly

\* search.rs:88-121  the first word of the text is an http(s) URL.
SearchUrl(valid) ==
    /\ rq_handler = "search" /\ rq_pc = "url"
    /\ IF valid THEN rq_pc' = "fetch" /\ UNCHANGED failure
       ELSE Fails("url", "error_reply")
    /\ NoWrite
    /\ UNCHANGED <<rq_handler, rows_before, first_send, delivered, requests>>
    /\ StoreOnly

\* search.rs:125-134  fetch_simplified_body
SearchFetch(res) ==
    /\ rq_handler = "search" /\ rq_pc = "fetch"
    /\ IF res = "ok" THEN rq_pc' = "model" /\ UNCHANGED failure
       ELSE Fails("fetch", "error_reply")
    /\ NoWrite
    /\ UNCHANGED <<rq_handler, rows_before, first_send, delivered, requests>>
    /\ StoreOnly

\* search.rs:169-183  the model request
SearchModel(res) ==
    /\ rq_handler = "search" /\ rq_pc = "model"
    /\ IF res = "ok" THEN rq_pc' = "send" /\ UNCHANGED failure
       ELSE Fails("model", "error_reply")
    /\ NoWrite
    /\ UNCHANGED <<rq_handler, rows_before, first_send, delivered, requests>>
    /\ StoreOnly

\* search.rs:197-246  where search goes after the first send.
SearchAfterSend(res) ==
    IF res = "ok" THEN "insert"
    ELSE IF res = "parse" THEN "reformat" ELSE "returned"

\* search.rs:195-246  the answer is sent in HTML mode.
SearchSend(res) ==
    /\ rq_handler = "search" /\ rq_pc = "send"
    /\ first_send' = res
    /\ delivered' = IF res = "ok" THEN delivered + 1 ELSE delivered
    /\ rq_pc' = SearchAfterSend(res)
    /\ failure' = IF res = "ok" THEN failure ELSE "send"
    /\ NoWrite
    /\ UNCHANGED <<rq_handler, rows_before, requests>>
    /\ StoreOnly

\* search.rs:204-221  the preprocessing model reformats the raw answer.
SearchReformat(res) ==
    /\ rq_handler = "search" /\ rq_pc = "reformat"
    /\ rq_pc' = IF res = "ok" THEN "resend" ELSE "error_reply"
    /\ NoWrite
    /\ UNCHANGED <<rq_handler, rows_before, first_send, delivered, failure,
                   requests>>
    /\ StoreOnly

\* search.rs:233-238  where search goes after the send of the reformatted
\* answer: it returns Ok(()) either way.
SearchAfterResend_Insert(res) == IF res = "ok" THEN "insert" ELSE "returned"

SearchAfterResend(res) == "returned"

\* search.rs:231-238  the reformatted answer is sent in HTML mode.
SearchResend(res) ==
    /\ rq_handler = "search" /\ rq_pc = "resend"
    /\ delivered' = IF res = "ok" THEN delivered + 1 ELSE delivered
    /\ rq_pc' = SearchAfterResend(res)
    /\ NoWrite
    /\ UNCHANGED <<rq_handler, rows_before, first_send, failure, requests>>
    /\ StoreOnly

\* search.rs:248-273  INSERT INTO messages on the pool (no transaction: the
\* row is durable when the statement succeeds).
SearchInsert(res) ==
    /\ rq_handler = "search" /\ rq_pc = "insert"
    /\ IF res = "ok"
          THEN /\ rows' = rows + 1
               /\ rq_pc' = "returned"
               /\ UNCHANGED failure
          ELSE /\ Fails("insert", "error_reply")
               /\ UNCHANGED rows
    /\ UNCHANGED <<rq_handler, tx, tx_writes, db_records, rows_before,
                   first_send, delivered, requests>>
    /\ StoreOnly

\* The error message of a failure path is sent (or fails to be sent) and
\* the handler returns.
ErrorReply(res) ==
    /\ rq_pc = "error_reply"
    /\ rq_pc' = "returned"
    /\ NoWrite
    /\ UNCHANGED <<rq_handler, rows_before, first_send, delivered, failure,
                   requests>>
    /\ StoreOnly

StoreNext ==
    \/ \E h \in Writers : Start(h)
    \/ \E known \in BOOLEAN : AskUser(known)
    \/ \E res \in IoResults : AskBegin(res)
    \/ \E res \in IoResults : AskHistory(res)
    \/ AskReasoning
    \/ \E res \in IoResults : AskModel(res)
    \/ \E res \in SendOutcomes : AskSend(res)
    \/ \E res \in IoResults : AskInsert(res)
    \/ \E res \in IoResults : AskCommit(res)
    \/ \E valid \in BOOLEAN : SearchInput(valid)
    \/ \E res \in IoResults : SearchHistory(res)
    \/ \E valid \in BOOLEAN : SearchUrl(valid)
    \/ \E res \in IoResults : SearchFetch(res)
    \/ \E res \in IoResults : SearchModel(res)
    \/ \E res \in SendOutcomes : SearchSend(res)
    \/ \E res \in IoResults : SearchReformat(res)
    \/ \E res \in IoResults : SearchResend(res)
    \/ \E res \in IoResults : SearchInsert(res)
    \/ \E res \in IoResults : ErrorReply(res)

StoreSpec == Init /\ [][StoreNext]_rq_vars

\* ================================================================ run_reasoning_step
\* analize.rs:22  for attempt in 0..2
MaxAttempts == 2

\* The characters of a text: a blank and a letter.
TextChars == {" ", "a"}

\* The texts a response can hold.
Texts == UNION {[1..n -> TextChars] : n \in 0..MaxTextLen}

\* What a model request yields: a response with text content, a response
\* with content of another kind, or a request error.
Responses ==
    {[kind |-> "text", text |-> t] : t \in Texts}
        \cup {[kind |-> "other", text |-> <<>>], [kind |-> "error", text |-> <<>>]}

\* The values of the argument base_prompt.
BasePrompts == {<<"p">>, <<" ", "p">>, <<"p", " ">>}

\* str::trim: the text without its leading and trailing white space.
trim(s) ==
    LET RECURSIVE Front(_)
        Front(i) == IF i <= Len(s) /\ s[i] = " " THEN Front(i + 1) ELSE i
        RECURSIVE Back(_)
        Back(j) == IF j >= 1 /\ s[j] = " " THEN Back(j - 1) ELSE j
    IN  SubSeq(s, Front(1), Back(Len(s)))

\* run_reasoning_step(groq, prompts, base, model) is called (lines 8-19).
ReasonCall(base) ==
    /\ rs_pc = "idle"
    /\ rs_base' = base
    /\ rs_pc' = "loop"
    /\ UNCHANGED <<rs_attempt, rs_requests, rs_responses, rs_result>>
    /\ ReasonOnly

\* Lines 22-29: the head of the loop; the request is sent while attempts
\* remain, and line 50 returns None after the loop.
ReasonRequest ==
    /\ rs_pc = "loop"
    /\ IF rs_attempt < MaxAttempts
          THEN /\ rs_requests' = rs_requests + 1
               /\ rs_pc' = "awaiting"
               /\ UNCHANGED rs_result
          ELSE /\ rs_result' = <<"None">>
               /\ rs_pc' = "returned"
               /\ UNCHANGED rs_requests
    /\ UNCHANGED <<rs_base, rs_attempt, rs_responses>>
    /\ ReasonOnly

\* Lines 31-45: whether the loop goes on to another attempt after resp.
Retries_AfterError(resp, attempt) ==
    resp.kind = "error" \/ (resp.kind = "other" /\ attempt # 1)

Retries(resp, attempt) == resp.kind = "other" /\ attempt # 1

\* Lines 30-46: the request yields resp.
ReasonResponse(resp) ==
    /\ rs_pc = "awaiting"
    /\ rs_responses' = Append(rs_responses, resp)
    /\ IF Retries(resp, rs_attempt)
          THEN /\ rs_attempt' = rs_attempt + 1
               /\ rs_pc' = "loop"
               /\ UNCHANGED rs_result
          ELSE /\ rs_result' =
                      IF resp.kind = "text" THEN <<"Some", trim(resp.text)>>
                      ELSE IF resp.kind = "other" THEN <<"Some", rs_base>>
                      ELSE <<"None">>
               /\ rs_pc' = "returned"
               /\ UNCHANGED rs_attempt
    /\ UNCHANGED <<rs_base, rs_requests>>
    /\ ReasonOnly

ReasonNext ==
    \/ \E base \in BasePrompts : ReasonCall(base)
    \/ ReasonRequest
    \/ \E resp \in Responses : ReasonResponse(resp)

ReasonSpec == Init /\ [][ReasonNext]_rs_vars

\* ================================================================ sanitizer
\* escape_telegram_code_entities (escape_telegram_code_entities.rs:5-112).
\* A text is a sequence of symbols.  A symbol is one character, except that
\* the words code, amp, lt and gt are one symbol each, and so is each
\* placeholder "\x07<prefix><index>\x07".  Inputs contain no BEL character, so
\* a placeholder never occurs in an input, and no upper-case letter, so
\* (?i) and to_lowercase change nothing.
Quotes == {"\"", "'"}

\* Symbols matched by [A-Za-z] at their first character and by
\* [A-Za-z0-9] throughout.
Letters == {"a", "x", "code", "amp", "lt", "gt"}

\* Symbols matched by \d.
Digits == {"1"}

\* Symbols made of characters of [0-9A-Fa-f] only.
HexDigits == {"a", "1"}

\* Word characters, for \b.
WordSymbols == Letters \cup Digits

\* ph(prefix, idx): format!("\x07{}{}\x07", prefix, idx).
ph(prefix, idx) == "^G" \o prefix \o ToString(idx) \o "^G"

\* s[from..to], empty when to < from.
Slice(s, from, to) == SubSeq(s, from, to)

\* str::replace(from, to) for a one-symbol pattern.
Replace(s, from, to) ==
    LET RECURSIVE Go(_)
        Go(i) == IF i > Len(s) THEN <<>>
                 ELSE (IF s[i] = from THEN to ELSE <<s[i]>>) \o Go(i + 1)
    IN  Go(1)

\* The three replace calls of lines 35-37 and 89-91, in their order.
EscapeText_AmpLast(s) ==
    Replace(Replace(Replace(s, "<", <<"&", "lt", ";">>),
                    ">", <<"&", "gt", ";">>),
            "&", <<"&", "amp", ";">>)

EscapeText(s) ==
    Replace(Replace(Replace(s, "&", <<"&", "amp", ";">>),
                    "<", <<"&", "lt", ";">>),
            ">", <<"&", "gt", ";">>)

\* The loops of lines 40-43, 94-97, 100-103 and 106-109: replace the
\* placeholder of every table entry, entry by entry.
Restore(s, prefix, table) ==
    LET RECURSIVE Go(_, _)
        Go(t, i) == IF i > Len(table) THEN t
                    ELSE Go(Replace(t, ph(prefix, i - 1), table[i]), i + 1)
    IN  Go(s, 1)

\* (?:[^"'<>]|"[^"]*"|'[^']*')*> from position q: the position of the
\* terminating '>', or 0 when the pattern does not match from q.
AttrsEnd_NoQuotes(s, q) ==
    LET RECURSIVE Go(_)
        Go(i) == IF i > Len(s) THEN 0
                 ELSE IF s[i] = ">" THEN i
                 ELSE IF s[i] = "<" THEN 0
                 ELSE Go(i + 1)
    IN  Go(q)

AttrsEnd(s, q) ==
    LET RECURSIVE Quote(_, _)
        Quote(r, c) == IF r > Len(s) THEN 0
                       ELSE IF s[r] = c THEN r ELSE Quote(r + 1, c)
        RECURSIVE Go(_)
        Go(i) == IF i > Len(s) THEN 0
                 ELSE IF s[i] = ">" THEN i
                 ELSE IF s[i] = "<" THEN 0
                 ELSE IF s[i] \in Quotes
                      THEN LET r == Quote(i + 1, s[i])
                           IN  IF r = 0 THEN 0 ELSE Go(r + 1)
                 ELSE Go(i + 1)
    IN  Go(q)

\* tag_re (line 8) at position p: the position of the last symbol of the
\* match, or 0.
tag_re(s, p) ==
    IF p + 1 <= Len(s) /\ s[p] = "<" /\ s[p + 1] \in Letters \cup {"/"}
    THEN AttrsEnd(s, p + 2)
    ELSE 0

\* entity_re (line 9) at position p: the position of the ';' that ends the
\* match, or 0.
entity_re(s, p) ==
    LET RECURSIVE Run(_, _)
        Run(i, class) == IF i <= Len(s) /\ s[i] \in class
                         THEN Run(i + 1, class) ELSE i
        Semi(i) == IF i <= Len(s) /\ s[i] = ";" THEN i ELSE 0
    IN  IF p > Len(s) \/ s[p] # "&" \/ p + 1 > Len(s) THEN 0
        ELSE IF s[p + 1] = "#"
             THEN IF p + 3 <= Len(s) /\ s[p + 2] = "x" /\ s[p + 3] \in HexDigits
                  THEN Semi(Run(p + 3, HexDigits))
                  ELSE IF p + 2 <= Len(s) /\ s[p + 2] \in Digits
                       THEN Semi(Run(p + 2, Digits))
                       ELSE 0
        ELSE IF s[p + 1] \in Letters
             THEN Semi(Run(p + 2, Letters \cup Digits))
             ELSE 0

\* The literal "</code>" at position p.
ClosingCodeAt(s, p) ==
    /\ p + 3 <= Len(s)
    /\ s[p] = "<" /\ s[p + 1] = "/" /\ s[p + 2] = "code" /\ s[p + 3] = ">"

\* code_re (line 7) at position p: <<a, r>> where a is the position of the
\* '>' of the opening tag and r the position of the first "</code>" after
\* it, or <<0, 0>> when there is no match at p.
code_re(s, p) ==
    LET RECURSIVE Close(_)
        Close(r) == IF r > Len(s) THEN 0
                    ELSE IF ClosingCodeAt(s, r) THEN r ELSE Close(r + 1)
    IN  IF /\ p + 2 <= Len(s)
           /\ s[p] = "<" /\ s[p + 1] = "code"
           /\ s[p + 2] \notin WordSymbols
        THEN LET a == AttrsEnd(s, p + 2)
             IN  IF a = 0 THEN <<0, 0>>
                 ELSE LET r == Close(a + 1)
                      IN  IF r = 0 THEN <<0, 0>> ELSE <<a, r>>
        ELSE <<0, 0>>

\* entity_re.replace_all(s, ..) of lines 25-32 and 79-86: every match is
\* pushed on the table and replaced by the placeholder of its index.
ProtectEntities_None(s, prefix) == [text |-> s, table |-> <<>>]

ProtectEntities(s, prefix) ==
    LET RECURSIVE Go(_, _, _)
        Go(p, out, table) ==
            IF p > Len(s) THEN [text |-> out, table |-> table]
            ELSE LET e == entity_re(s, p)
                 IN  IF e = 0 THEN Go(p + 1, Append(out, s[p]), table)
                     ELSE Go(e + 1, Append(out, ph(prefix, Len(table))),
                             Append(table, Slice(s, p, e)))
    IN  Go(1, <<>>, <<>>)

\* Lines 23-43: the inner content of a code block, escaped with its
\* entities kept.
EscapeInner_NoEntities(inner) == EscapeText(inner)

EscapeInner(inner) ==
    LET prot == ProtectEntities(inner, "ENTC")
    IN  Restore(EscapeText(prot.text), "ENTC", prot.table)

\* Line 46: format!("<code{}>{}</code>", attrs, inner_escaped).
code_html_Raw(attrs, inner) ==
    <<"<", "code">> \o attrs \o <<">">> \o inner \o <<"<", "/", "code", ">">>

code_html(attrs, inner) ==
    <<"<", "code">> \o attrs \o <<">">> \o EscapeInner(inner)
        \o <<"<", "/", "code", ">">>

\* Pass 1 (lines 17-51): code_re.replace_all.
ExtractCode(s) ==
    LET RECURSIVE Go(_, _, _)
        Go(p, out, table) ==
            IF p > Len(s) THEN [text |-> out, table |-> table]
            ELSE LET m == code_re(s, p)
                 IN  IF m[1] = 0 THEN Go(p + 1, Append(out, s[p]), table)
                     ELSE Go(m[2] + 4, Append(out, ph("CODE", Len(table))),
                             Append(table,
                                    code_html(Slice(s, p + 2, m[1] - 1),
                                              Slice(s, m[1] + 1, m[2] - 1))))
    IN  Go(1, <<>>, <<>>)

\* Line 55: s_after_code.to_lowercase().contains("</code>").
has_closing_code(s) == \E p \in 1..Len(s) : ClosingCodeAt(s, p)

\* Lines 62-64: the tag starts with "<code" or with "</code".
IsCodeTag(tag) ==
    \/ Len(tag) >= 2 /\ tag[1] = "<" /\ tag[2] = "code"
    \/ Len(tag) >= 3 /\ tag[1] = "<" /\ tag[2] = "/" /\ tag[3] = "code"

\* Lines 67-69: a code tag is kept as a tag only if the text has a "</code>".
KeepsTag_Always(tag, closing) == TRUE

KeepsTag(tag, closing) == ~IsCodeTag(tag) \/ closing

\* Pass 2 (lines 55-75): tag_re.replace_all.
ExtractTags(s) ==
    LET closing == has_closing_code(s)
        RECURSIVE Go(_, _, _)
        Go(p, out, table) ==
            IF p > Len(s) THEN [text |-> out, table |-> table]
            ELSE LET e == tag_re(s, p)
                 IN  IF e = 0 THEN Go(p + 1, Append(out, s[p]), table)
                     ELSE IF KeepsTag(Slice(s, p, e), closing)
                          THEN Go(e + 1, Append(out, ph("TAG", Len(table))),
                                  Append(table, Slice(s, p, e)))
                          ELSE Go(e + 1, out \o Slice(s, p, e), table)
    IN  Go(1, <<>>, <<>>)

\* The whole function (lines 5-112).
escape_telegram_code_entities(input) ==
    LET code == ExtractCode(input)
        tags == ExtractTags(code.text)
        ents == ProtectEntities(tags.text, "ENTG")
        escaped == EscapeText(ents.text)
    IN  Restore(Restore(Restore(escaped, "ENTG", ents.table),
                        "TAG", tags.table),
                "CODE", code.table)

\* ---------------------------------------------------------------- inputs
\* The inputs: texts made of at most MaxPieces pieces, a piece being one
\* symbol or one of a few markup fragments.
Pieces ==
    {<<"<">>, <<">">>, <<"&">>, <<";">>, <<"#">>, <<"/">>, <<"\"">>,
     <<"a">>, <<"1">>, <<"code">>,
     <<"<", "a">>,
     <<"<", "a", "\"", ">", "\"", ">">>,
     <<"<", "code", ">">>,
     <<"<", "/", "code", ">">>,
     <<"<", "code", ">", "<", "/", "code", ">">>,
     <<"<", "code", "\"", ">", "\"", ">">>,
     <<"&", "a", ";">>,
     <<"&", "#", "x">>}

\* One more piece is appended to the input.
AddPiece(piece) ==
    /\ san_phase = "input"
    /\ san_pieces < MaxPieces
    /\ san_input' = san_input \o piece
    /\ san_pieces' = san_pieces + 1
    /\ UNCHANGED <<san_output, san_twice, san_phase>>
    /\ SanitizerOnly

\* escape_telegram_code_entities(input) is called and returns.
Sanitize ==
    /\ san_phase = "input"
    /\ san_output' = escape_telegram_code_entities(san_input)
    /\ san_phase' = "done"
    /\ UNCHANGED <<san_input, san_pieces, san_twice>>
    /\ SanitizerOnly

\* The function is applied to its own result.
SanitizeAgain ==
    /\ san_phase = "done"
    /\ san_twice' = escape_telegram_code_entities(san_output)
    /\ san_phase' = "again"
    /\ UNCHANGED <<san_input, san_pieces, san_output>>
    /\ SanitizerOnly

SanNext ==
    \/ \E piece \in Pieces : AddPiece(piece)
    \/ Sanitize
    \/ SanitizeAgain

SanSpec == Init /\ [][SanNext]_san_vars

\* ================================================================ claims
\* Calls whose f() is over: completed with a value, panicked or dropped.
TaskIsOver(t) == pc[t] \in {"check", "cleanup_wait", "in_cleanup", "unlock", "drop_arc", "done"}

\* Calls that hold a reference to the key-lock allocation l.
Referencing(l) == {t \in Calls : lock_arc[t] = l}

\* C1: the number of calls that are simultaneously inside task() never
\* exceeds the capacity of the executor.
CapacityBound == Cardinality(InsideTask) <= Capacity

\* C1 witness: the capacity is used up by running tasks while a further
\* call is queued for a permit.
CapacityReached ==
    /\ Cardinality(InsideTask) = Capacity
    /\ sem_waiters # <<>>

\* C2: at most one call per key is inside task() at any time.
KeyMutualExclusion ==
    \A t1, t2 \in InsideTask : t1 # t2 => user_key[t1] # user_key[t2]

\* C2 witness: a call is inside task() while another call with the same key
\* is queued on the same key mutex.
SameKeyContended ==
    \E t1, t2 \in Calls :
        /\ t1 # t2
        /\ user_key[t1] = user_key[t2]
        /\ pc[t1] = "task"
        /\ pc[t2] = "key_wait"

\* C3 (as claimed): whenever no run call for key k is in flight, the
\* registry holds no entry for k.
NoLeak ==
    \A k \in Keys :
        (\A t \in InFlight : user_key[t] # k) => user_locks[k] = NoLock

\* C4 (as claimed): the holder-count check is made inside the critical
\* section of the registry mutex, i.e. by the call that owns it.
CheckUnderRegistryLock ==
    [][\A t \in Calls :
          (pc[t] = "check" /\ pc'[t] \in {"cleanup_wait", "unlock"})
              => map_holder = t]_vars

\* C5: while a call holds a reference to a key lock, the registry maps the
\* call's key to that very allocation (the entry is neither removed nor
\* replaced), so calls for one key that are in flight together share one
\* key lock.
SameKeyLockInstance ==
    /\ \A t \in Calls :
          lock_arc[t] # NoLock => user_locks[user_key[t]] = lock_arc[t]
    /\ \A t1, t2 \in Calls :
          (lock_arc[t1] # NoLock /\ lock_arc[t2] # NoLock
              /\ user_key[t1] = user_key[t2]) => lock_arc[t1] = lock_arc[t2]

\* C5 witness: a call has finished its task and passed the cleanup check
\* while a second call for the same key references the same key lock.
SharedKeyLock ==
    \E t1, t2 \in Calls :
        /\ t1 # t2
        /\ lock_arc[t1] # NoLock
        /\ lock_arc[t1] = lock_arc[t2]
        /\ pc[t1] \in {"unlock", "drop_arc"}
        /\ pc[t2] \in {"key_wait", "locked", "task"}

\* C9: permits are conserved: free permits plus permits owned by calls is
\* the capacity, the free count stays within 0..Capacity, and a permit is
\* owned only by a call that is in flight and has not passed drop(permit).
PermitConservation ==
    /\ permits + Cardinality({t \in Calls : permit[t]}) = Capacity
    /\ permits \in 0..Capacity
    /\ \A t \in Calls :
          permit[t] <=> pc[t] \in {"map_wait", "in_map", "key_try", "key_wait",
                                   "locked", "task"}

\* C9 witness: a call has given its permit back after its task, and all
\* permits are owned again, one of them by the call invoked last.
PermitReused ==
    \E t \in Calls :
        /\ pc[t] \in {"check", "unlock", "drop_arc", "done"}
        /\ ran[t] = 1
        /\ permit[NumCalls]
        /\ permits = 0

\* C10: run() calls f() at most once, exactly once for a call that got past
\* the key lock, and a call that returns hands back exactly the value that
\* f() produced.
RunTransparent ==
    \A t \in Calls :
        /\ ran[t] <= 1
        /\ pc[t] \in {"task", "check", "cleanup_wait", "in_cleanup", "unlock",
                      "drop_arc"} => ran[t] = 1
        /\ outcome[t] = "returned" =>
              /\ ran[t] = 1
              /\ produced[t] \in TaskValues
              /\ ret[t] = produced[t]

\* C10 witness: a call whose task produced a failure value has returned.
FailureReturned ==
    \E t \in Calls : outcome[t] = "returned" /\ produced[t] = "err"

\* C6 (as claimed): a call that has left run() after it had acquired a
\* permit (by returning, by a panic of the task, or by being dropped) owns
\* no permit, no key mutex and no reference to the key lock, and the
\* registry bookkeeping for its key is done: the entry is gone unless
\* another call still references the key lock.
Admitted(t) ==
    \/ outcome[t] \in {"returned", "panicked"}
    \/ outcome[t] = "cancelled" /\ ran[t] = 1

ReleasedOnEveryExit ==
    \A t \in Calls :
        Admitted(t) =>
            /\ ~permit[t]
            /\ \A l \in LockIds : lock_holder[l] # t
            /\ lock_arc[t] = NoLock
            /\ (user_locks[user_key[t]] # NoLock
                   => Referencing(user_locks[user_key[t]]) # {})

\* C7: under fair scheduling, when every started task completes, every
\* invoked call runs its task once and returns.
EventualAdmission ==
    \A t \in Calls :
        (pc[t] # "idle") ~> (outcome[t] = "returned" /\ ran[t] = 1)

\* C7 witness: a call that had to queue on its key mutex has been handed the
\* mutex after the previous owner returned, while another call is still on
\* its way.
AdmittedAfterWaiting ==
    \E t, u \in Calls :
        /\ pc[t] = "locked"
        /\ outcome[u] = "returned"
        /\ user_key[u] = user_key[t]

\* C8 (as claimed): of two calls with the same key, the task of the one
\* invoked first is over before the task of the other starts.  (Calls are
\* numbered in invocation order.)
InvocationOrder ==
    \A t1, t2 \in Calls :
        (t1 < t2 /\ user_key[t1] = user_key[t2] /\ ran[t2] >= 1)
            => TaskIsOver(t1)

\* C8 (amended): of two calls that reference the same key lock, the task of
\* the one that called lock() first is over before the task of the other
\* starts: a call whose task has started and is not over is the earliest
\* pending arrival at its key mutex.
KeyLockOrder ==
    \A l \in LockIds :
        \A i, j \in 1..Len(arrived[l]) :
            i < j => ran[arrived[l][j]] = 0

\* C8 witness: the key mutex was handed to the earliest of its waiters, who
\* is inside task() while a later arrival is still queued and the previous
\* owner has not yet left run().
HandedToEarliest ==
    \E l \in LockIds :
        /\ Len(arrived[l]) >= 2
        /\ pc[arrived[l][1]] = "task"
        /\ pc[arrived[l][2]] = "key_wait"
        /\ \E u \in Calls : pc[u] = "drop_arc" /\ lock_arc[u] = l

\* C11: a call suspended on its key mutex waits behind a call with the same
\* key that currently owns that mutex, never behind a call with another
\* key.  (That two tasks with different keys are inside task() together is
\* the reachable state CapacityReached, whose tasks differ in key by C2.)
WaitsOnlyForSameKey ==
    \A t \in Calls :
        pc[t] = "key_wait" =>
            LET h == lock_holder[lock_arc[t]]
            IN  /\ h \in Calls \ {t}
                /\ user_key[h] = user_key[t]
                /\ lock_arc[h] = lock_arc[t]
                /\ pc[h] \in {"locked", "task", "check", "cleanup_wait",
                              "in_cleanup", "unlock"}

\* C11 witness: a call waits for its key mutex while a call with a different
\* key, invoked later, is inside task().
DifferentKeyNotBlocked ==
    \E t, u \in Calls :
        /\ pc[t] = "key_wait"
        /\ pc[u] = "task"
        /\ user_key[u] # user_key[t]
        /\ t < u

\* C12: there is no timeout.  As long as a call stays inside task() it keeps
\* its permit and its key mutex whatever the other calls do; while Capacity
\* tasks stay inside task() no other call starts its task, and while a task
\* for key k stays inside task() no other call for k starts its task.
Stays(t) == pc[t] = "task" /\ pc'[t] = "task"

Starts(u) == pc[u] # "task" /\ pc'[u] = "task"

HungTaskKeepsResources ==
    [][/\ \A t \in Calls :
             Stays(t) => /\ permit'[t]
                         /\ lock_arc'[t] = lock_arc[t]
                         /\ lock_holder'[lock_arc[t]] = t
       /\ Cardinality({t \in Calls : Stays(t)}) = Capacity
             => \A u \in Calls : ~Starts(u)
       /\ \A t, u \in Calls :
             (Stays(t) /\ user_key[u] = user_key[t]) => ~Starts(u)]_vars

\* C12 witness: a task is inside task() while a call with the same key is
\* queued on the key mutex and a third call is queued for a permit.
HungTaskBlocks ==
    \E t, u, w \in Calls :
        /\ pc[t] = "task"
        /\ pc[u] = "key_wait"
        /\ user_key[u] = user_key[t]
        /\ pc[w] = "permit_wait"

\* ---------------------------------------------------------------- keep-alive claims
\* A step in which shutdown() is called.
ShutdownIsCalled == shutdown_calls' = shutdown_calls + 1

\* C13: shutdown() returns only after the background loop has fully exited:
\* in every state after a shutdown() has returned the signaler is Stopped,
\* no send_chat_action is in progress and none starts.
ShutdownWaitsForExit ==
    [][shutdown_done' =>
          /\ SignalerState' = "Stopped"
          /\ loop_pc' # "sending"
          /\ shutdown_done => invocations' = invocations]_keep_vars

\* C13 witness: shutdown() has returned, after the loop made at least one
\* invocation before the stop request and then took the stop branch.
ReturnedAfterWaiting ==
    /\ shutdown_done
    /\ caller = "holding"
    /\ loop_pc = "exited"
    /\ invocations >= 1
    /\ seen_at_stop = invocations

\* C14: no send_chat_action invocation starts after shutdown() has issued
\* the stop request: from the request on, the number of invocations started
\* is the number that had been started when the request was issued.
NoInvocationAfterStop ==
    shutdown_calls >= 1 => invocations = seen_at_stop

\* C15: the number of invocations counted once shutdown() has returned is
\* at most one more than the number counted when shutdown() was called.
AtMostOneMore ==
    shutdown_done => invocations <= seen_at_stop + 1

\* C16: shutdown() is idempotent: a second or later call sends no stop
\* signal, awaits nothing and changes no state, and dropping the value after
\* a shutdown() has returned sends no stop signal and aborts nothing.
ShutdownIdempotent ==
    [][/\ (ShutdownIsCalled /\ shutdown_calls >= 1) =>
              /\ caller' = "holding"
              /\ UNCHANGED <<stop_tx, handle, stop_rx, abort_flag, loop_pc,
                             tick_due, invocations, failures, shutdown_done,
                             seen_at_stop>>
       /\ (caller = "holding" /\ caller' = "dropped" /\ shutdown_done) =>
              UNCHANGED <<stop_tx, handle, stop_rx, abort_flag, loop_pc,
                          tick_due, invocations, failures, seen_at_stop>>]_keep_vars

\* C16 witness: shutdown() has been called twice and the value was dropped
\* afterwards.
DroppedAfterSecondShutdown ==
    /\ shutdown_calls = 2
    /\ shutdown_done
    /\ caller = "dropped"

\* C17: a failed send_chat_action does not stop the loop: after a failure
\* the task is back at select!, and the signaler leaves Running only because
\* a stop request was sent or the task was aborted.
FailureKeepsLooping ==
    [][/\ failures' > failures => loop_pc' = "select"
       /\ (SignalerState = "Running" /\ SignalerState' # "Running") =>
              (stop_rx' = "sent" \/ abort_flag')]_keep_vars

\* C17 witness: after two failed invocations the signaler is Running and a
\* further invocation is in progress.
InvokesAfterFailures ==
    /\ failures >= 2
    /\ SignalerState = "Running"
    /\ loop_pc = "sending"

\* C18: once shutdown() has sent the stop signal, the next step of a loop
\* that waits in select! is to exit: it starts no further invocation.
ExitsImmediately ==
    [][(shutdown_calls >= 1 /\ stop_rx = "sent" /\ loop_pc = "select"
            /\ loop_pc' # "select") =>
          (loop_pc' = "exited" /\ invocations' = invocations)]_keep_vars

\* C19: the lifecycle is linear: Running is left only for Stopping, and only
\* by shutdown() or drop; Stopping is left only for Stopped; Stopped is
\* terminal, and a Stopped signaler starts no invocation.
LinearLifecycle ==
    [][/\ SignalerState = "Running" =>
              /\ SignalerState' \in {"Running", "Stopping"}
              /\ SignalerState' = "Stopping" =>
                     (ShutdownIsCalled \/ caller' = "dropped")
       /\ SignalerState = "Stopping" =>
              SignalerState' \in {"Stopping", "Stopped"}
       /\ SignalerState = "Stopped" =>
              /\ SignalerState' = "Stopped"
              /\ UNCHANGED <<loop_pc, invocations, failures>>]_keep_vars

\* C19 witness: the signaler is Stopped after invocations, a repeated
\* shutdown() and the drop of the value.
StoppedForGood ==
    /\ SignalerState = "Stopped"
    /\ invocations >= 1
    /\ shutdown_calls >= 2
    /\ caller = "dropped"

\* The value was dropped and shutdown() had never been called.
DroppedWithoutShutdown == caller = "dropped" /\ shutdown_calls = 0

\* C20: when the value is dropped without shutdown(), the stop signal has
\* been sent and the task aborted, and the loop eventually is Stopped.
DropTearsDown ==
    /\ [](DroppedWithoutShutdown => (stop_rx = "sent" /\ abort_flag))
    /\ (DroppedWithoutShutdown ~> SignalerState = "Stopped")

\* C20 witness: the drop did not wait: the value is gone while a
\* send_chat_action is still in progress.
DroppedWhileSending ==
    /\ DroppedWithoutShutdown
    /\ loop_pc = "sending"

ReplyAfterShutdown ==
    [][replies' > replies =>
          (shutdown_done /\ SignalerState = "Stopped")]_<<keep_vars, h_vars>>

\* ---------------------------------------------------------------- sanitizer claims
\* The function has returned.
Sanitized == san_phase \in {"done", "again"}

\* The matches of tag_re in s, left to right, as <<first, last>> positions.
TagMatches(s) ==
    LET RECURSIVE Go(_)
        Go(p) == IF p > Len(s) THEN <<>>
                 ELSE LET e == tag_re(s, p)
                      IN  IF e = 0 THEN Go(p + 1)
                          ELSE <<<<p, e>>>> \o Go(e + 1)
    IN  Go(1)

\* The matches of code_re in s, left to right, as <<first, a, r>>: '<' at
\* first, the '>' of the opening tag at a, "</code>" at r..r+3.
CodeMatches(s) ==
    LET RECURSIVE Go(_)
        Go(p) == IF p > Len(s) THEN <<>>
                 ELSE LET c == code_re(s, p)
                      IN  IF c[1] = 0 THEN Go(p + 1)
                          ELSE <<<<p, c[1], c[2]>>>> \o Go(c[2] + 4)
    IN  Go(1)

Range(f) == {f[i] : i \in DOMAIN f}

\* t occurs in s at position k.
OccursAt(s, t, k) == k + Len(t) - 1 <= Len(s) /\ Slice(s, k, k + Len(t) - 1) = t

\* The first position from `from` on at which t occurs in s, or 0.
Find(s, t, from) ==
    LET ks == {k \in from..Len(s) + 1 : OccursAt(s, t, k)}
    IN  IF ks = {} THEN 0 ELSE CHOOSE k \in ks : \A j \in ks : k <= j

\* What the contract asks of text that is neither tag nor code: entity
\* references kept, every other '&', '<' and '>' replaced, read once from
\* left to right.
RefEsc(s) ==
    LET RECURSIVE Go(_)
        Go(p) == IF p > Len(s) THEN <<>>
                 ELSE IF s[p] = "&"
                      THEN LET e == entity_re(s, p)
                           IN  IF e = 0 THEN <<"&", "amp", ";">> \o Go(p + 1)
                               ELSE Slice(s, p, e) \o Go(e + 1)
                 ELSE IF s[p] = "<" THEN <<"&", "lt", ";">> \o Go(p + 1)
                 ELSE IF s[p] = ">" THEN <<"&", "gt", ";">> \o Go(p + 1)
                 ELSE <<s[p]>> \o Go(p + 1)
    IN  Go(1)

\* The tags the input entitles the output to: its own complete tags and the
\* wrappers "<code attrs>" and "</code>" of its code blocks.
AllowedTags(s) ==
    {Slice(s, t[1], t[2]) : t \in Range(TagMatches(s))}
        \cup {Slice(s, c[1], c[2]) : c \in Range(CodeMatches(s))}
        \cup {<<"<", "/", "code", ">">> : c \in Range(CodeMatches(s))}

\* Every '<', '>' and '&' of o belongs to a tag of `allowed` or to an entity
\* reference.
OnlyAllowedMarkup(o, allowed) ==
    LET tags == Range(TagMatches(o))
        covered == UNION {t[1]..t[2] : t \in tags}
    IN  /\ \A t \in tags : Slice(o, t[1], t[2]) \in allowed
        /\ \A p \in (1..Len(o)) \ covered :
              /\ o[p] \notin {"<", ">"}
              /\ o[p] = "&" => entity_re(o, p) # 0

\* C22: every '<', '>' and '&' of the output is part of a tag or entity of
\* the input that was preserved, or of the wrapper of a matched code block;
\* every other one has been replaced by &lt;, &gt; or &amp;.
OutputIsSafe ==
    Sanitized => OnlyAllowedMarkup(san_output, AllowedTags(san_input))

\* ---- C23
\* The input holds no complete tag, no code block and no entity reference.
IsPlain(s) == \A p \in 1..Len(s) : tag_re(s, p) = 0 /\ entity_re(s, p) = 0

\* Each '&', '<' and '>' replaced on its own, all else unchanged.
PlainEscape(s) ==
    LET One(c) == IF c = "&" THEN <<"&", "amp", ";">>
                  ELSE IF c = "<" THEN <<"&", "lt", ";">>
                  ELSE IF c = ">" THEN <<"&", "gt", ";">>
                  ELSE <<c>>
        RECURSIVE Go(_)
        Go(i) == IF i > Len(s) THEN <<>> ELSE One(s[i]) \o Go(i + 1)
    IN  Go(1)

\* C23: for an input with no complete tag, no code block and no entity
\* reference, the output is the input with each '&' replaced by "&amp;",
\* each '<' by "&lt;" and each '>' by "&gt;", everything else unchanged and
\* in the same order.
PlainTextEscaped ==
    (Sanitized /\ IsPlain(san_input)) => san_output = PlainEscape(san_input)

\* C23 witness: a plain input with all three special characters, sanitized.
PlainWithAllThree ==
    /\ Sanitized
    /\ IsPlain(san_input)
    /\ {"&", "<", ">"} \subseteq Range(san_input)

\* ---- C24
\* The input holds no complete tag (and so no code block).
NoTags(s) == \A p \in 1..Len(s) : tag_re(s, p) = 0

\* The '&' at position p of s starts no entity reference.
BareAmp(s, p) == s[p] = "&" /\ entity_re(s, p) = 0

\* The output asked for a matched code block c of s: the opening tag with
\* its attributes, the inner content with its entities kept and every other
\* '&', '<' and '>' replaced, then "</code>".
ExpectedBlock(s, c) ==
    <<"<", "code">> \o Slice(s, c[1] + 2, c[2] - 1) \o <<">">>
        \o RefEsc(Slice(s, c[2] + 1, c[3] - 1))
        \o <<"<", "/", "code", ">">>

\* s is one code block and nothing else.
IsOneBlock(s) ==
    LET ms == CodeMatches(s)
    IN  Len(ms) = 1 /\ ms[1][1] = 1 /\ ms[1][3] + 3 = Len(s)

CodeBlocksEscaped ==
    Sanitized =>
        LET ms == CodeMatches(san_input)
            RECURSIVE Go(_, _)
            Go(i, from) ==
                IF i > Len(ms) THEN TRUE
                ELSE LET b == ExpectedBlock(san_input, ms[i])
                         k == Find(san_output, b, from)
                     IN  k # 0 /\ Go(i + 1, k + Len(b))
        IN  Go(1, 1)

\* C25 witness: a sanitized input with two code blocks, one of them with a
\* '<' in its content.
TwoBlocksOneWithMarkup ==
    /\ Sanitized
    /\ LET ms == CodeMatches(san_input)
       IN  /\ Len(ms) >= 2
           /\ \E i \in 1..Len(ms) :
                 "<" \in Range(Slice(san_input, ms[i][2] + 1, ms[i][3] - 1))

\* ---- C26
\* The input with every matched code block taken out: s_after_code, with
\* "CODE" standing for each block.
AfterCode(s) == ExtractCode(s).text

\* What C26 asks of a text t without "</code>": tags other than code kept,
\* code-looking tags and all other text escaped as literal text.
ExpectedUnclosed(t) ==
    LET ts == TagMatches(t)
        Piece(i) == LET tag == Slice(t, ts[i][1], ts[i][2])
                    IN  IF IsCodeTag(tag) THEN RefEsc(tag) ELSE tag
        Gap(i) == Slice(t, IF i = 1 THEN 1 ELSE ts[i - 1][2] + 1,
                           IF i > Len(ts) THEN Len(t) ELSE ts[i][1] - 1)
        RECURSIVE Go(_)
        Go(i) == IF i > Len(ts) THEN RefEsc(Gap(i))
                 ELSE RefEsc(Gap(i)) \o Piece(i) \o Go(i + 1)
    IN  Go(1)

\* C26: if the text left after the matched code blocks were taken out has no
\* "</code>" anywhere, every "<code ...>"-looking tag in it is emitted
\* escaped as literal text, while the other tags are kept as they are.
UnclosedCodeEscaped ==
    (Sanitized /\ ~has_closing_code(AfterCode(san_input))) =>
        san_output = Restore(ExpectedUnclosed(AfterCode(san_input)), "CODE",
                             ExtractCode(san_input).table)

\* C26 witness: a sanitized input with an unclosed <code ...> tag and a tag
\* that is not code.
UnclosedCodeAndOtherTag ==
    /\ Sanitized
    /\ ~has_closing_code(AfterCode(san_input))
    /\ LET t == AfterCode(san_input)
       IN  /\ \E m \in Range(TagMatches(t)) : IsCodeTag(Slice(t, m[1], m[2]))
           /\ \E m \in Range(TagMatches(t)) : ~IsCodeTag(Slice(t, m[1], m[2]))

\* ---- C27
\* The '<' at position p of s starts tag-like text that reaches the end of
\* s without a '>' outside quotes.
Truncated(s, p) ==
    LET RECURSIVE Quote(_, _)
        Quote(r, c) == IF r > Len(s) THEN 0
                       ELSE IF s[r] = c THEN r ELSE Quote(r + 1, c)
        RECURSIVE Go(_)
        Go(i) == IF i > Len(s) THEN TRUE
                 ELSE IF s[i] = ">" THEN FALSE
                 ELSE IF s[i] \in Quotes
                      THEN LET r == Quote(i + 1, s[i])
                           IN  IF r = 0 THEN TRUE ELSE Go(r + 1)
                 ELSE Go(i + 1)
    IN  /\ p + 1 <= Len(s)
        /\ s[p] = "<"
        /\ s[p + 1] \in Letters \cup {"/"}
        /\ Go(p + 2)

\* The position of the first '<' of s, or 0.
FirstLt(s) == Find(s, <<"<">>, 1)

InCodeBlock(s, a, b) ==
    \E c \in Range(CodeMatches(s)) : ~(b < c[1] \/ a > c[3] + 3)

\* C28: every complete opening or closing tag of the input outside code
\* blocks, other than a code tag when no "</code>" is left, is in the output
\* character for character, a '>' inside a quoted attribute value included.
CompleteTagsPreserved ==
    Sanitized =>
        \A t \in Range(TagMatches(san_input)) :
            LET tag == Slice(san_input, t[1], t[2])
            IN  (/\ ~InCodeBlock(san_input, t[1], t[2])
                 /\ IsCodeTag(tag) => has_closing_code(AfterCode(san_input)))
                    => \E k \in 1..Len(san_output) : OccursAt(san_output, tag, k)

\* ---- C29
\* C29: the function is idempotent: applied to its own output it returns
\* that output; the escaped content of a code block is not escaped again.
Idempotent == san_phase = "again" => san_twice = san_output

\* C29 witness: the function was applied twice to an input with a code
\* block whose content had to be escaped.
TwiceOnEscapedBlock ==
    /\ san_phase = "again"
    /\ san_output # san_input
    /\ \E c \in Range(CodeMatches(san_input)) :
          \E q \in c[2] + 1..c[3] - 1 : san_input[q] \in {"<", ">", "&"}

PermitHeldWhileWaitingForKey ==
    /\ \A t \in Calls : pc[t] \in {"key_wait", "locked"} => permit[t]
    /\ \A t \in Calls :
          pc[t] = "permit_wait" =>
              /\ permits = 0
              /\ Cardinality({u \in Calls : permit[u]}) = Capacity

\* C32 witness: Capacity calls of one key own all the permits, one of them
\* is inside task() and the others wait for the key lock, while a call for a
\* key that no other call uses waits for a permit.
BlockedByWaitingCalls ==
    \E k \in Keys : \E w \in Calls :
        LET same == {t \in Calls : user_key[t] = k /\ permit[t]}
        IN  /\ Cardinality(same) = Capacity
            /\ Cardinality(same \cap InsideTask) = 1
            /\ \A t \in same \ InsideTask : pc[t] = "key_wait"
            /\ Cardinality(InsideTask) < Capacity
            /\ pc[w] = "permit_wait"
            /\ user_key[w] # k
            /\ \A u \in Calls \ {w} : user_key[u] # user_key[w]

\* ---------------------------------------------------------------- command claims
\* C33: shutdown() cannot interrupt a send_chat_action in progress: while
\* the handler is inside shutdown() and the invocation stays in progress,
\* the loop does not leave it for the stop signal, shutdown() does not
\* return, and the run() call around the handler stays inside its task with
\* its permit and its key lock.
ShutdownWaitsForInvocation ==
    [][(h_pc = "joining" /\ loop_pc = "sending") =>
          /\ ~shutdown_done
          /\ loop_pc' \in {"sending", "select"}
          /\ loop_pc' = "sending" =>
                /\ h_pc' = "joining"
                /\ ~shutdown_done'
                /\ pc'[ThisCall] = "task"
                /\ permit'[ThisCall]
                /\ lock_holder'[lock_arc'[ThisCall]] = ThisCall]_<<vars, keep_vars, h_vars, cmd_vars>>

\* C33 witness: the handler is inside shutdown() while a send_chat_action is
\* in progress, and the earlier command, of the same user, has since come to
\* wait for the key lock.
ShutdownHangsOnInvocation ==
    /\ h_pc = "joining"
    /\ loop_pc = "sending"
    /\ stop_rx = "sent"
    /\ permit[ThisCall]
    /\ pc[1] = "key_wait"
    /\ user_key[1] = user_key[ThisCall]

\* C37: handle_command admits work only for identified senders and never
\* propagates a handler failure: without a sender the run() call is never
\* made (no permit, no key lock); with a sender, once handle_command has
\* returned, run() has returned, the permit and the key lock are released,
\* an Err of the handler was logged, and the value returned is Ok(()).
AdmitsIdentifiedOnly ==
    /\ pc[ThisCall] # "idle" => sender = "some"
    /\ sender = "none" =>
          /\ hc_pc \in {"refusing", "returned"}
          /\ ~permit[ThisCall]
          /\ lock_arc[ThisCall] = NoLock
          /\ ran[ThisCall] = 0
    /\ h_result = "Err" => logged
    /\ (hc_pc = "returned" /\ sender = "some") =>
          /\ hc_ret = "Ok"
          /\ outcome[ThisCall] = "returned"
          /\ h_result \in HandlerResults
          /\ ~permit[ThisCall]
          /\ \A l \in LockIds : lock_holder[l] # ThisCall

\* C37 witness: handle_command has returned for an identified sender whose
\* handler had failed.
ReturnedAfterHandlerError ==
    /\ hc_pc = "returned"
    /\ sender = "some"
    /\ h_result = "Err"
    /\ logged

\* ---------------------------------------------------------------- store claims
\* C34: in ask the reply is sent before any database change is committed:
\* the (prompt, response) row is inserted, and the transaction committed,
\* only after the send succeeded; on the failure of the history query, of
\* the main model, of the send or of the insert the transaction is rolled
\* back, and no failed request leaves a row of its own.
AskRepliesBeforeCommit ==
    [][rq_handler' = "ask" =>
          /\ "message" \in tx_writes' => first_send' = "ok"
          /\ tx' = "committed" => first_send' = "ok" /\ failure' = "none"
          /\ (rows' # rows \/ db_records' # db_records) =>
                /\ first_send = "ok"
                /\ tx' = "committed"
                /\ rows' = rows + 1
          /\ (rq_pc' = "returned"
                /\ failure' \in {"history", "model", "send", "insert"}) =>
                /\ tx' = "rolled_back"
                /\ tx_writes' = {}
          /\ failure' # "none" => rows' = rows_before']_rq_vars

\* C34 witness: ask delivered its answer, the insert failed, the transaction
\* was rolled back, and ask returned.
AnsweredButNotStored ==
    /\ rq_handler = "ask"
    /\ rq_pc = "returned"
    /\ first_send = "ok"
    /\ failure = "insert"
    /\ tx = "rolled_back"
    /\ rows = rows_before

\* C35: in search the row is inserted only on the path on which the first
\* send succeeded; on every path on which the first send fails, the one on
\* which a reformatted answer is then delivered included, search returns
\* without inserting a row.
SearchStoresAfterFirstSend ==
    [][rq_handler' = "search" =>
          /\ rows' # rows => first_send = "ok" /\ rows' = rows + 1
          /\ first_send' \in {"parse", "err"} => rows' = rows_before'
          /\ (rq_pc' = "returned" /\ rows' = rows_before' + 1) =>
                first_send' = "ok"]_rq_vars

\* C35 witness: the first send failed with a parse error, the reformatted
\* answer was delivered, and search returned without a row.
ReformattedNotStored ==
    /\ rq_handler = "search"
    /\ rq_pc = "returned"
    /\ first_send = "parse"
    /\ delivered = 1
    /\ rows = rows_before

\* ---------------------------------------------------------------- reasoning claims
\* r is t without its leading and trailing blanks.
IsTrimmed(r, t) ==
    /\ r = <<>> \/ (r[1] # " " /\ r[Len(r)] # " ")
    /\ \E i \in 0..Len(t) :
          /\ i + Len(r) <= Len(t)
          /\ SubSeq(t, i + 1, i + Len(r)) = r
          /\ \A q \in (1..i) \cup (i + Len(r) + 1..Len(t)) : t[q] = " "

\* C36: run_reasoning_step sends at most 2 model requests; a text response
\* on any attempt is returned at once, trimmed; a request error on any
\* attempt returns None at once; a second request is sent only after a
\* response without text on the first, and a response without text on the
\* second returns the base prompt as it was passed.
AtMostTwoRequests ==
    LET n == Len(rs_responses)
    IN  /\ rs_requests <= 2
        /\ rs_requests = n + (IF rs_pc = "awaiting" THEN 1 ELSE 0)
        /\ rs_requests = 2 => rs_responses[1].kind = "other"
        /\ \A i \in 1..n :
              rs_responses[i].kind \in {"text", "error"} =>
                  i = n /\ rs_pc = "returned"
        /\ rs_pc = "returned" =>
              /\ n \in 1..2
              /\ rs_responses[n].kind = "text" =>
                    /\ rs_result[1] = "Some"
                    /\ IsTrimmed(rs_result[2], rs_responses[n].text)
              /\ rs_responses[n].kind = "error" => rs_result = <<"None">>
              /\ rs_responses[n].kind = "other" =>
                    n = 2 /\ rs_result = <<"Some", rs_base>>

\* C36 witness: two requests were sent, neither response had text, and the
\* base prompt, which begins with a blank, was returned untrimmed.
FellBackToBasePrompt ==
    /\ rs_pc = "returned"
    /\ rs_requests = 2
    /\ rs_responses[2].kind = "other"
    /\ rs_result = <<"Some", rs_base>>
    /\ rs_base[1] = " "
====
